---- MODULE Spec2Model ----
(***************************************************************************)
(* Model of lunchmoney-venmo-syncer: the Venmo statement assembler         *)
(* (src/venmo.rs, fetch_venmo_transactions), the record validation         *)
(* (src/types/venmo.rs, TryFrom<TransactionRecord> for Transaction) and    *)
(* the normalizer (Transaction::to_lunchmoney_transactions), the parsing    *)
(* and rendering of amounts (FromStr and Display for Amount) and the sync  *)
(* run (src/main.rs, cmd_sync_venmo_transactions, with                     *)
(* src/lunchmoney.rs, insert_transactions).                                *)
(*                                                                         *)
(* Rust values are modelled as follows.                                    *)
(*   Option<T>     None is << >>, Some(v) is << v >>                        *)
(*   Result<T, E>  [ok |-> TRUE, val |-> v] or [ok |-> FALSE, err |-> e]    *)
(*   String        a TLA+ string; format!/push_str is \o.  The text an      *)
(*                 amount is parsed from or rendered to is the sequence of  *)
(*                 its characters                                           *)
(*   f64           [neg |-> sign bit, mag |-> magnitude in 1/10000 units],  *)
(*                 or [neg |-> sign bit, inf |-> TRUE] beyond f64::MAX      *)
(*   Vec<T>        a sequence                                               *)
(***************************************************************************)
EXTENDS Integers, Sequences, FiniteSets, TLC

VARIABLES
    records,            \* the items the csv record iterator yields (venmo.rs:88)
    statement,          \* Option<Result<Statement>>: what fetch_venmo_transactions returned
    txn,                \* the Transaction to_lunchmoney_transactions is called on (self)
    expected_currency,  \* its argument expected_currency
    asset_id,           \* its argument asset_id
    normalized,         \* Option<Result<Vec<lunchmoney::Transaction>, Error>>: what it returned
    amount_text,        \* the characters Amount::from_str is called on
    parsed,             \* Option<Result<Amount, Error>>: what from_str returned
    rendered,           \* Option<String>: the parsed amount through its Display
    reparsed,           \* Option<Result<Amount, Error>>: from_str of the rendered text
    pc,                 \* where cmd_sync_venmo_transactions stands
    lunchmoney_transactions,  \* the flattened entries (main.rs:137-145)
    position,           \* the entries the chunk iterator has handed out
    calls,              \* the batches insert_transactions was called with, in call order
    outcomes,           \* what each call that returned gave: Ok(ids) or Err
    in_flight,          \* the calls issued and not yet returned
    synced_transactions,  \* main.rs:149
    run_result          \* Option<Result<()>>: what the command returned

amountVars == <<amount_text, parsed, rendered, reparsed>>
syncVars == <<pc, lunchmoney_transactions, position, calls, outcomes, in_flight,
              synced_transactions, run_result>>
vars == <<records, statement, txn, expected_currency, asset_id, normalized, amountVars,
          syncVars>>

----------------------------------------------------------------------------
(* Option and Result *)

None == << >>
Some(v) == << v >>
IsNone(o) == Len(o) = 0
IsSome(o) == Len(o) = 1
Unwrap(o) == o[1]

Ok(v) == [ok |-> TRUE, val |-> v]
Err(e) == [ok |-> FALSE, err |-> e]

----------------------------------------------------------------------------
(* f64, as far as the code uses it: the sign bit and unary minus *)

F64(n, m) == [neg |-> n, mag |-> m]
Negate(v) == [v EXCEPT !.neg = ~v.neg]
\* A value beyond f64::MAX: the infinity of that sign, which has no magnitude.
Infinity(n) == [neg |-> n, inf |-> TRUE]
IsFinite(v) == "mag" \in DOMAIN v

\* f64::is_sign_positive with the slip of testing `val > 0.0`.
IsPositiveValue(v) == IF IsFinite(v) THEN ~v.neg /\ v.mag > 0 ELSE ~v.neg

IsSignPositive(v) == ~v.neg

\* venmo::Amount { currency, val }
Amount(c, v) == [currency |-> c, val |-> v]

\* lunchmoney::Amount(f64), a newtype
LmAmount(v) == [f64 |-> v]

----------------------------------------------------------------------------
(* u64::to_string and str::to_lowercase *)

DecimalDigits == <<"0", "1", "2", "3", "4", "5", "6", "7", "8", "9">>

RECURSIVE U64ToString(_)
U64ToString(n) ==
    IF n < 10 THEN DecimalDigits[n + 1]
    ELSE U64ToString(n \div 10) \o DecimalDigits[(n % 10) + 1]

UpperCase == <<"A", "B", "C", "D", "E", "F", "G", "H", "I", "J", "K", "L", "M",
               "N", "O", "P", "Q", "R", "S", "T", "U", "V", "W", "X", "Y", "Z">>
LowerCase == <<"a", "b", "c", "d", "e", "f", "g", "h", "i", "j", "k", "l", "m",
               "n", "o", "p", "q", "r", "s", "t", "u", "v", "w", "x", "y", "z">>

CharToLowercase(c) ==
    IF \E i \in 1..Len(UpperCase) : UpperCase[i] = c
    THEN LowerCase[CHOOSE i \in 1..Len(UpperCase) : UpperCase[i] = c]
    ELSE c

RECURSIVE JoinChars(_)
JoinChars(cs) == IF cs = << >> THEN "" ELSE Head(cs) \o JoinChars(Tail(cs))

\* The ISO code is kept as its characters, so that lowercasing acts on each.
ToLowercase(cs) == JoinChars([i \in 1..Len(cs) |-> CharToLowercase(cs[i])])
\* str::to_string on the same representation.
CodeToString(cs) == JoinChars(cs)

----------------------------------------------------------------------------
(* Amount::from_str and Amount's Display.  A text is the sequence of its    *)
(* characters.                                                              *)

IsDigit(c) == \E i \in 1..Len(DecimalDigits) : DecimalDigits[i] = c
DigitValue(c) == (CHOOSE i \in 1..Len(DecimalDigits) : DecimalDigits[i] = c) - 1

\* One way for VENMO_AMOUNT_RE, ^([-+]?)[ ]?([^0-9])([0-9.]+)$, to match `s`:
\* with `sign` characters taken by ([-+]?) and `space` by [ ]?, each 0 or 1.
MatchesWith(s, sign, space) ==
    /\ Len(s) >= sign + space + 2
    /\ sign = 1 => s[1] \in {"-", "+"}
    /\ space = 1 => s[sign + 1] = " "
    /\ ~IsDigit(s[sign + space + 1])
    /\ \A i \in (sign + space + 2)..Len(s) : IsDigit(s[i]) \/ s[i] = "."

\* The ways in the order the regex engine tries them: both ? are greedy.
MatchOrder == << <<1, 1>>, <<1, 0>>, <<0, 1>>, <<0, 0>> >>

\* VENMO_AMOUNT_RE.captures(s): groups 1, 2 and 3 of the first way that matches
Captures(s) ==
    LET ways == {k \in 1..Len(MatchOrder) : MatchesWith(s, MatchOrder[k][1], MatchOrder[k][2])}
    IN IF ways = {} THEN None
       ELSE LET k == CHOOSE w \in ways : \A v \in ways : w <= v
                sign == MatchOrder[k][1]
                space == MatchOrder[k][2]
            IN Some([sign |-> SubSeq(s, 1, sign),
                     marker |-> s[sign + space + 1],
                     number |-> SubSeq(s, sign + space + 2, Len(s))])

\* The digits of f64::MAX before its decimal point.
F64MaxDigits == 309

RECURSIVE DigitsValue(_)
DigitsValue(ds) ==
    IF ds = << >> THEN 0
    ELSE 10 * DigitsValue(SubSeq(ds, 1, Len(ds) - 1)) + DigitValue(ds[Len(ds)])

RECURSIVE StripLeadingZeros(_)
StripLeadingZeros(ds) ==
    IF ds # << >> /\ Head(ds) = "0" THEN StripLeadingZeros(Tail(ds)) ELSE ds

\* The fraction digits in 1/10000 units; digits after the fourth, which no
\* text of the inputs below has, round to the nearest unit.
FractionValue(ds) ==
    LET four == [i \in 1..4 |-> IF i <= Len(ds) THEN ds[i] ELSE "0"]
    IN DigitsValue(four) + (IF Len(ds) > 4 /\ DigitValue(ds[5]) >= 5 THEN 1 ELSE 0)

ParseFloatError == [variant |-> "ParseFloatError"]

\* str::parse::<f64> on an optional sign followed by digits and dots: a text
\* with no digit or with two dots is no number, one beyond f64::MAX is
\* infinite.
ParseF64(t) ==
    LET signed == t # << >> /\ t[1] \in {"-", "+"}
        neg == t # << >> /\ t[1] = "-"
        number == IF signed THEN Tail(t) ELSE t
        dots == {i \in 1..Len(number) : number[i] = "."}
        dot == IF dots = {} THEN Len(number) + 1 ELSE CHOOSE i \in dots : TRUE
        whole == SubSeq(number, 1, dot - 1)
        fraction == SubSeq(number, dot + 1, Len(number))
    IN IF Cardinality(dots) > 1 \/ Len(number) - Cardinality(dots) = 0
       THEN Err(ParseFloatError)
       ELSE IF Len(StripLeadingZeros(whole)) > F64MaxDigits
            THEN Ok(Infinity(neg))
            ELSE Ok(F64(neg, 10000 * DigitsValue(whole) + FractionValue(fraction)))

ParseAmountError(s) == [variant |-> "ParseAmountError", text |-> s]

\* FromStr with the slip of parsing group 3 alone, without the sign.
FromStrDropsSign(s) ==
    LET captures == Captures(s) IN
    IF IsNone(captures) THEN Err(ParseAmountError(s))
    ELSE LET val == ParseF64(Unwrap(captures).number) IN
         IF ~val.ok THEN Err(ParseAmountError(s))
         ELSE Ok(Amount(Unwrap(captures).marker, val.val))

\* impl FromStr for Amount, types/venmo.rs:96-115
FromStr(s) ==
    LET captures == Captures(s) IN
    IF IsNone(captures) THEN Err(ParseAmountError(s))
    ELSE LET val == ParseF64(Unwrap(captures).sign \o Unwrap(captures).number) IN
         IF ~val.ok THEN Err(ParseAmountError(s))
         ELSE Ok(Amount(Unwrap(captures).marker, val.val))

RECURSIVE U64ToChars(_)
U64ToChars(n) ==
    IF n < 10 THEN <<DecimalDigits[n + 1]>>
    ELSE Append(U64ToChars(n \div 10), DecimalDigits[(n % 10) + 1])

\* format!("{:.4}", val.abs())
FormatAbs4(v) ==
    IF ~IsFinite(v) THEN <<"i", "n", "f">>
    ELSE U64ToChars(v.mag \div 10000) \o <<".">>
         \o [i \in 1..4 |-> DecimalDigits[((v.mag \div (10 ^ (4 - i))) % 10) + 1]]

\* impl fmt::Display for Amount, types/venmo.rs:84-94
DisplayAmount(a) ==
    (IF a.val.neg THEN <<"-">> ELSE << >>) \o <<a.currency>> \o FormatAbs4(a.val)

----------------------------------------------------------------------------
(* TransactionRecord and Transaction *)

\* A record with every field absent: what a row of empty cells decodes to.
EmptyRecord ==
    [id |-> None, datetime |-> None, type_ |-> None, status |-> None,
     note |-> None, from |-> None, to |-> None, amount_total |-> None,
     amount_tip |-> None, amount_fee |-> None, funding_source |-> None,
     destination |-> None, beginning_balance |-> None, ending_balance |-> None,
     statment_period_venmo_fees |-> None, terminal_location |-> None,
     year_to_date_venmo_fees |-> None, disclaimer |-> None]

\* Utc.from_utc_datetime: the naive date-time, read as a time in UTC.
FromUtcDatetime(naive) == [naive_utc |-> naive, offset |-> "Utc"]

InvalidRecord(field, val) ==
    [variant |-> "InvalidRecord", field |-> field, record |-> val]

\* TryFrom with the slip of reporting a missing datetime under the name "id".
TryFromWrongField(val) ==
    IF IsNone(val.id) THEN Err(InvalidRecord("id", val))
    ELSE IF IsNone(val.datetime) THEN Err(InvalidRecord("id", val))
    ELSE IF IsNone(val.type_) THEN Err(InvalidRecord("type_", val))
    ELSE IF IsNone(val.status) THEN Err(InvalidRecord("status", val))
    ELSE IF IsNone(val.amount_total) THEN Err(InvalidRecord("amount_total", val))
    ELSE Ok([id |-> Unwrap(val.id),
             datetime |-> FromUtcDatetime(Unwrap(val.datetime)),
             type_ |-> Unwrap(val.type_),
             status |-> Unwrap(val.status),
             note |-> val.note,
             from |-> val.from,
             to |-> val.to,
             amount_total |-> Unwrap(val.amount_total),
             funding_source |-> val.funding_source,
             destination |-> val.destination])

\* impl TryFrom<TransactionRecord> for Transaction
TryFrom(val) ==
    IF IsNone(val.id) THEN Err(InvalidRecord("id", val))
    ELSE IF IsNone(val.datetime) THEN Err(InvalidRecord("datetime", val))
    ELSE IF IsNone(val.type_) THEN Err(InvalidRecord("type_", val))
    ELSE IF IsNone(val.status) THEN Err(InvalidRecord("status", val))
    ELSE IF IsNone(val.amount_total) THEN Err(InvalidRecord("amount_total", val))
    ELSE Ok([id |-> Unwrap(val.id),
             datetime |-> FromUtcDatetime(Unwrap(val.datetime)),
             type_ |-> Unwrap(val.type_),
             status |-> Unwrap(val.status),
             note |-> val.note,
             from |-> val.from,
             to |-> val.to,
             amount_total |-> Unwrap(val.amount_total),
             funding_source |-> val.funding_source,
             destination |-> val.destination])

\* Statement { beginning_balance, ending_balance, transactions }
Statement(b, e, ts) ==
    [beginning_balance |-> b, ending_balance |-> e, transactions |-> ts]

----------------------------------------------------------------------------
(* fetch_venmo_transactions, from the csv record iterator on.  The iterator *)
(* yields Result<TransactionRecord, csv::Error> items; `pos` is the number  *)
(* of items next() has taken so far.                                        *)

CsvError == [variant |-> "csv::Error"]

NoBeginningRecordMsg ==
    "Expected there to be a beginning balance record, found none in response"
BeginningBalanceUnsetMsg ==
    "Expected 'Beginning Balance' to be set for the first record, got response"
NoEndingRecordMsg ==
    "Expected there to be an ending balance record, found none in response"
EndingBalanceUnsetMsg ==
    "Expected 'Ending Balance' to be set for the last record, got response"
ConvertContextMsg ==
    "Failed to convert TransactionRecord to Transaction"

\* anyhow!(msg)
Anyhow(msg) == [variant |-> "anyhow", msg |-> msg]
\* .with_context(|| anyhow!(msg, record_clone)) around a source error
WithContext(msg, record_clone, source) ==
    [variant |-> "anyhow", msg |-> msg, record |-> record_clone, source |-> source]

\* records_iter.peek().is_none() after `pos` items were taken
PeekIsNone(records_iter, pos) == pos >= Len(records_iter)

\* BeginningBalance with the slip of defaulting an absent beginning balance
\* (unwrap_or) instead of failing.
BeginningBalanceDefaulted(records_iter) ==
    IF Len(records_iter) = 0 THEN Err(Anyhow(NoBeginningRecordMsg))
    ELSE IF ~records_iter[1].ok THEN Err(records_iter[1].err)
    ELSE IF IsNone(records_iter[1].val.beginning_balance)
         THEN Ok(Amount("$", F64(FALSE, 0)))
         ELSE Ok(Unwrap(records_iter[1].val.beginning_balance))

\* venmo.rs:90-102: the first item and its beginning balance
BeginningBalance(records_iter) ==
    IF Len(records_iter) = 0 THEN Err(Anyhow(NoBeginningRecordMsg))
    ELSE IF ~records_iter[1].ok THEN Err(records_iter[1].err)
    ELSE IF IsNone(records_iter[1].val.beginning_balance)
         THEN Err(Anyhow(BeginningBalanceUnsetMsg))
         ELSE Ok(Unwrap(records_iter[1].val.beginning_balance))

\* PushTransaction with the slip of inserting at the front.
PushFront(transactions, t) == <<t>> \o transactions

\* transactions.push(..)
PushTransaction(transactions, t) == Append(transactions, t)

\* venmo.rs:104-129: one iteration per item taken; yields the ending balance
\* and the transactions, or the error the loop leaves with.
RECURSIVE EndingBalanceLoop(_, _, _)
EndingBalanceLoop(records_iter, pos, transactions) ==
    IF pos >= Len(records_iter) THEN Err(Anyhow(NoEndingRecordMsg))
    ELSE IF ~records_iter[pos + 1].ok THEN Err(records_iter[pos + 1].err)
    ELSE LET record == records_iter[pos + 1].val IN
         IF PeekIsNone(records_iter, pos + 1)
         THEN IF IsNone(record.ending_balance)
              THEN Err(Anyhow(EndingBalanceUnsetMsg))
              ELSE Ok([ending_balance |-> Unwrap(record.ending_balance),
                       transactions |-> transactions])
         ELSE LET converted == TryFrom(record) IN
              IF ~converted.ok
              THEN Err(WithContext(ConvertContextMsg, record, converted.err))
              ELSE EndingBalanceLoop(records_iter, pos + 1,
                                     PushTransaction(transactions, converted.val))

\* FetchVenmoTransactions with the slip of looking at the first record again
\* when the loop starts.
FetchVenmoTransactionsReuseFirst(records_iter) ==
    LET beginning == BeginningBalance(records_iter) IN
    IF ~beginning.ok THEN beginning
    ELSE LET ending == EndingBalanceLoop(records_iter, 0, << >>) IN
         IF ~ending.ok THEN ending
         ELSE Ok(Statement(beginning.val, ending.val.ending_balance,
                           ending.val.transactions))

\* fetch_venmo_transactions, venmo.rs:84-136
FetchVenmoTransactions(records_iter) ==
    LET beginning == BeginningBalance(records_iter) IN
    IF ~beginning.ok THEN beginning
    ELSE LET ending == EndingBalanceLoop(records_iter, 1, << >>) IN
         IF ~ending.ok THEN ending
         ELSE Ok(Statement(beginning.val, ending.val.ending_balance,
                           ending.val.transactions))

----------------------------------------------------------------------------
(* Transaction::to_lunchmoney_transactions *)

WrongCurrencyError(symbol, code, got) ==
    [variant |-> "WrongCurrencyError", symbol |-> symbol, code |-> code, got |-> got]

InvalidTransaction(field, rule, transaction) ==
    [variant |-> "InvalidTransaction", field |-> field, rule |-> rule,
     transaction |-> transaction]

StandardTransferRule == "'Transaction Type' is set to 'Standard Transfer'"
ChargePositiveRule ==
    "'Transaction Type' is set to 'Charge' and 'Amount' is positive"
ChargeNegativeRule ==
    "'Transaction Type' is set to 'Charge' and 'Amount' is negative"
PaymentPositiveRule ==
    "'Transaction Type' is set to 'Payment' or 'Merchant Transaction' and 'Amount' is positive"
PaymentNegativeRule ==
    "'Transaction Type' is set to 'Payment' or 'Merchant Transaction' and 'Amount' is negative"

\* option.ok_or_else(|| Error::InvalidTransaction(field, rule, self.clone()))
OkOrInvalid(option, field, rule, self) ==
    IF IsSome(option) THEN Ok(Unwrap(option))
    ELSE Err(InvalidTransaction(field, rule, self))

\* ResolvePayee with the two branches of Charge swapped.
ResolvePayeeChargeSwapped(self) ==
    CASE self.type_ = "StandardTransfer" ->
            IF IsSome(self.destination)
            THEN Ok("TRANSFER TO " \o Unwrap(self.destination))
            ELSE Err(InvalidTransaction("destination", StandardTransferRule, self))
      [] self.type_ = "Charge" ->
            IF IsSignPositive(self.amount_total.val)
            THEN OkOrInvalid(self.from, "from", ChargePositiveRule, self)
            ELSE OkOrInvalid(self.to, "to", ChargeNegativeRule, self)
      [] self.type_ \in {"Payment", "MerchantTransaction"} ->
            IF IsSignPositive(self.amount_total.val)
            THEN OkOrInvalid(self.from, "from", PaymentPositiveRule, self)
            ELSE OkOrInvalid(self.to, "to", PaymentNegativeRule, self)

\* ResolvePayee with a Standard Transfer falling back on `to` when it has no
\* destination.
ResolvePayeeFallback(self) ==
    CASE self.type_ = "StandardTransfer" ->
            IF IsSome(self.destination)
            THEN Ok("TRANSFER TO " \o Unwrap(self.destination))
            ELSE OkOrInvalid(self.to, "to", StandardTransferRule, self)
      [] self.type_ = "Charge" ->
            IF IsSignPositive(self.amount_total.val)
            THEN OkOrInvalid(self.to, "to", ChargePositiveRule, self)
            ELSE OkOrInvalid(self.from, "from", ChargeNegativeRule, self)
      [] self.type_ \in {"Payment", "MerchantTransaction"} ->
            IF IsSignPositive(self.amount_total.val)
            THEN OkOrInvalid(self.from, "from", PaymentPositiveRule, self)
            ELSE OkOrInvalid(self.to, "to", PaymentNegativeRule, self)

\* types/venmo.rs:236-290: `let payee = match self.type_ { .. }`
ResolvePayee(self) ==
    CASE self.type_ = "StandardTransfer" ->
            IF IsSome(self.destination)
            THEN Ok("TRANSFER TO " \o Unwrap(self.destination))
            ELSE Err(InvalidTransaction("destination", StandardTransferRule, self))
      [] self.type_ = "Charge" ->
            IF IsSignPositive(self.amount_total.val)
            THEN OkOrInvalid(self.to, "to", ChargePositiveRule, self)
            ELSE OkOrInvalid(self.from, "from", ChargeNegativeRule, self)
      [] self.type_ \in {"Payment", "MerchantTransaction"} ->
            IF IsSignPositive(self.amount_total.val)
            THEN OkOrInvalid(self.from, "from", PaymentPositiveRule, self)
            ELSE OkOrInvalid(self.to, "to", PaymentNegativeRule, self)

\* impl Default for lunchmoney::Transaction (types/lunchmoney.rs:75-95)
DefaultLmTransaction ==
    [id |-> None, date |-> FromUtcDatetime(0), payee |-> None,
     amount |-> LmAmount(F64(FALSE, 0)), currency |-> None, notes |-> None,
     category_id |-> None, asset_id |-> None, status |-> "Uncleared",
     parent_id |-> None, is_group |-> None, group_id |-> None, tags |-> None,
     external_id |-> None, original_name |-> None]

\* lunchmoney::Transaction { date, payee, amount, currency, notes, asset_id,
\* external_id, status: Uncleared, ..Default::default() }
LmTransaction(date, payee, amount, currency, notes, asset, external_id) ==
    [DefaultLmTransaction EXCEPT
        !.date = date, !.payee = payee, !.amount = amount, !.currency = currency,
        !.notes = notes, !.asset_id = asset, !.external_id = external_id,
        !.status = "Uncleared"]

\* option.map(|val| format!("<prefix>'{}'", val))
MapNote(note, prefix) ==
    IF IsSome(note) THEN Some(prefix \o "'" \o Unwrap(note) \o "'") ELSE None

\* PrimaryEntry without the to_lowercase of the ISO code.
PrimaryEntryUppercase(self, payee, currency, asset) ==
    LmTransaction(self.datetime, Some(payee), LmAmount(self.amount_total.val),
                  Some(CodeToString(currency.iso_alpha_code)),
                  self.note, Some(asset), Some(U64ToString(self.id)))

\* types/venmo.rs:293-303: the first element of `txn`
PrimaryEntry(self, payee, currency, asset) ==
    LmTransaction(self.datetime, Some(payee), LmAmount(self.amount_total.val),
                  Some(ToLowercase(currency.iso_alpha_code)),
                  self.note, Some(asset), Some(U64ToString(self.id)))

\* HasFundingShadow without the is_empty test.
HasFundingShadowNoEmptyCheck(self) ==
    /\ IsSome(self.funding_source)
    /\ Unwrap(self.funding_source) # "Venmo balance"

\* types/venmo.rs:305-306: the condition of the funding shadow
HasFundingShadow(self) ==
    /\ IsSome(self.funding_source)
    /\ Unwrap(self.funding_source) # ""
    /\ Unwrap(self.funding_source) # "Venmo balance"

\* FundingShadow with a digit as the suffix of its external id.
FundingShadowDigitSuffix(self, currency, asset) ==
    LmTransaction(self.datetime,
                  Some("TRANSFER FROM " \o Unwrap(self.funding_source)),
                  LmAmount(Negate(self.amount_total.val)),
                  Some(ToLowercase(currency.iso_alpha_code)),
                  MapNote(self.note, "To fund Venmo transaction with note: "),
                  Some(asset), Some(U64ToString(self.id) \o "1"))

\* types/venmo.rs:309-322
FundingShadow(self, currency, asset) ==
    LmTransaction(self.datetime,
                  Some("TRANSFER FROM " \o Unwrap(self.funding_source)),
                  LmAmount(Negate(self.amount_total.val)),
                  Some(ToLowercase(currency.iso_alpha_code)),
                  MapNote(self.note, "To fund Venmo transaction with note: "),
                  Some(asset), Some(U64ToString(self.id) \o "T"))

\* HasDestinationShadow without the "Venmo balance" test.
HasDestinationShadowNoSentinel(self) ==
    /\ IsSome(self.destination)
    /\ Unwrap(self.destination) # ""
    /\ self.type_ # "StandardTransfer"

\* HasDestinationShadow without the Standard Transfer test.
HasDestinationShadowAnyType(self) ==
    /\ IsSome(self.destination)
    /\ Unwrap(self.destination) # ""
    /\ Unwrap(self.destination) # "Venmo balance"

\* types/venmo.rs:326-333: the condition of the destination shadow
HasDestinationShadow(self) ==
    /\ IsSome(self.destination)
    /\ Unwrap(self.destination) # ""
    /\ Unwrap(self.destination) # "Venmo balance"
    /\ self.type_ # "StandardTransfer"

\* DestinationShadow with the suffix of the funding shadow.
DestinationShadowSuffixT(self, currency, asset) ==
    LmTransaction(self.datetime,
                  Some("TRANSFER TO " \o Unwrap(self.destination)),
                  LmAmount(Negate(self.amount_total.val)),
                  Some(ToLowercase(currency.iso_alpha_code)),
                  MapNote(self.note, "From Venmo transaction with note: "),
                  Some(asset), Some(U64ToString(self.id) \o "T"))

\* types/venmo.rs:334-347
DestinationShadow(self, currency, asset) ==
    LmTransaction(self.datetime,
                  Some("TRANSFER TO " \o Unwrap(self.destination)),
                  LmAmount(Negate(self.amount_total.val)),
                  Some(ToLowercase(currency.iso_alpha_code)),
                  MapNote(self.note, "From Venmo transaction with note: "),
                  Some(asset), Some(U64ToString(self.id) \o "TDEPOSIT"))

\* types/venmo.rs:292-352: `let transactions = { let mut txn = vec![..]; .. txn }`
BuildEntries(self, payee, currency, asset) ==
    <<PrimaryEntry(self, payee, currency, asset)>>
    \o (IF HasFundingShadow(self)
        THEN <<FundingShadow(self, currency, asset)>> ELSE << >>)
    \o (IF HasDestinationShadow(self)
        THEN <<DestinationShadow(self, currency, asset)>> ELSE << >>)

WrongCurrency(self, currency) ==
    WrongCurrencyError(currency.symbol, CodeToString(currency.iso_alpha_code),
                       self.amount_total.currency)

\* ToLunchmoneyTransactions with the payee resolved before the currency is
\* compared.
ToLunchmoneyPayeeFirst(self, currency, asset) ==
    LET payee == ResolvePayee(self) IN
    IF ~payee.ok THEN payee
    ELSE IF self.amount_total.currency # currency.symbol
         THEN Err(WrongCurrency(self, currency))
         ELSE Ok(BuildEntries(self, payee.val, currency, asset))

\* Transaction::to_lunchmoney_transactions, types/venmo.rs:223-355
ToLunchmoneyTransactions(self, currency, asset) ==
    IF self.amount_total.currency # currency.symbol
    THEN Err(WrongCurrency(self, currency))
    ELSE LET payee == ResolvePayee(self) IN
         IF ~payee.ok THEN payee
         ELSE Ok(BuildEntries(self, payee.val, currency, asset))

----------------------------------------------------------------------------
(* Inputs of the assembler *)

MaxRecords == 4     \* longest record sequence drawn from RecordItems
MaxPad == 1         \* valid rows around the record drawn from WideRecords

RequiredFields == {"id", "datetime", "type_", "status", "amount_total"}
CopiedFields == {"note", "from", "to", "funding_source", "destination"}
BalanceFields == {"beginning_balance", "ending_balance"}
FooterFields ==
    {"statment_period_venmo_fees", "year_to_date_venmo_fees", "disclaimer"}

\* A row with every column filled in.
FullRecord ==
    [id |-> Some(7), datetime |-> Some(3), type_ |-> Some("Payment"),
     status |-> Some("Complete"), note |-> Some("lunch"), from |-> Some("Bob"),
     to |-> Some("Alice"), amount_total |-> Some(Amount("$", F64(TRUE, 50000))),
     amount_tip |-> Some(Amount("$", F64(FALSE, 0))),
     amount_fee |-> Some(Amount("$", F64(FALSE, 0))),
     funding_source |-> Some("Venmo balance"), destination |-> Some("Bank"),
     beginning_balance |-> Some(Amount("$", F64(FALSE, 1000000))),
     ending_balance |-> Some(Amount("$", F64(FALSE, 950000))),
     statment_period_venmo_fees |-> Some(Amount("$", F64(FALSE, 0))),
     terminal_location |-> Some("Venmo"),
     year_to_date_venmo_fees |-> Some(Amount("$", F64(FALSE, 0))),
     disclaimer |-> Some("In case of errors")]

\* The row that has the columns `present` filled in and the others empty.
MaskedRecord(present) ==
    [f \in DOMAIN FullRecord |-> IF f \in present THEN FullRecord[f] ELSE None]

BeginningRow == MaskedRecord({"beginning_balance"})
EndingRow == MaskedRecord({"ending_balance"} \cup FooterFields)
BothRow == MaskedRecord(BalanceFields)
TxnRowA == MaskedRecord(RequiredFields \cup CopiedFields \cup {"amount_fee"})
TxnRowB ==
    [MaskedRecord(RequiredFields) EXCEPT
        !.id = Some(120), !.datetime = Some(11), !.type_ = Some("Charge"),
        !.status = Some("Issued")]
TxnRowNoAmount == MaskedRecord((RequiredFields \ {"amount_total"}) \cup CopiedFields)

\* What the iterator may yield: decoded rows, or a row csv could not decode.
RecordItems ==
    {Ok(BeginningRow), Ok(EndingRow), Ok(BothRow), Ok(TxnRowA), Ok(TxnRowB),
     Ok(TxnRowNoAmount), Ok(FullRecord), Err(CsvError)}

WideRecords ==
    {MaskedRecord(req \cup opt \cup bal) :
        req \in SUBSET RequiredFields, opt \in SUBSET CopiedFields,
        bal \in {{}, BalanceFields}}

Repeat(x, n) == [i \in 1..n |-> x]

NarrowSequences == UNION {[1..n -> RecordItems] : n \in 0..MaxRecords}

\* One record of WideRecords at any place of an otherwise well-formed statement.
WideSequences ==
    {pre \o <<Ok(r)>> \o post :
        pre \in {<< >>} \cup {<<Ok(BeginningRow)>> \o Repeat(Ok(TxnRowB), k) : k \in 0..MaxPad},
        r \in WideRecords,
        post \in {<< >>} \cup {Repeat(Ok(TxnRowB), k) \o <<Ok(EndingRow)>> : k \in 0..MaxPad}}

----------------------------------------------------------------------------
(* Inputs of the normalizer *)

\* rusty_money::iso currencies, as found by main.rs:119: symbol and ISO code.
USD == [symbol |-> "$", iso_alpha_code |-> <<"U", "S", "D">>]
AUD == [symbol |-> "$", iso_alpha_code |-> <<"A", "U", "D">>]
ZAR == [symbol |-> "R", iso_alpha_code |-> <<"Z", "A", "R">>]
Currencies == {USD, AUD, ZAR}

AssetIds == {42, 1001}

TransactionTypes == {"Charge", "Payment", "StandardTransfer", "MerchantTransaction"}
Markers == {"$", "R"}
Magnitudes == {0, 50000, 123400}
Names == {None, Some("Alice")}
Notes == {None, Some("lunch")}
FundingSources == {None, Some(""), Some("Venmo balance"), Some("Chase ****1234")}
Destinations == {None, Some(""), Some("Venmo balance"), Some("Bank"), Some("Checking")}
\* id, time and status of a statement row
Stamps ==
    {[id |-> 7, datetime |-> FromUtcDatetime(3), status |-> "Complete"],
     [id |-> 120, datetime |-> FromUtcDatetime(11), status |-> "Issued"]}

Transactions ==
    {[id |-> s.id, datetime |-> s.datetime, type_ |-> t, status |-> s.status,
      note |-> n, from |-> f, to |-> o,
      amount_total |-> Amount(m, F64(neg, mag)),
      funding_source |-> fs, destination |-> d] :
        s \in Stamps, t \in TransactionTypes, n \in Notes,
        f \in {None, Some("Bob")}, o \in Names,
        m \in Markers, neg \in BOOLEAN, mag \in Magnitudes,
        fs \in FundingSources, d \in Destinations}

----------------------------------------------------------------------------
(* The two machines: one call of fetch_venmo_transactions on a record       *)
(* sequence, one call of to_lunchmoney_transactions on a transaction.       *)

IdleTransaction == TryFrom(TxnRowA).val

\* cmd_sync_venmo_transactions is not running.
SyncIdle ==
    /\ pc = "idle"
    /\ lunchmoney_transactions = << >>
    /\ position = 0
    /\ calls = << >>
    /\ outcomes = << >>
    /\ in_flight = 0
    /\ synced_transactions = << >>
    /\ run_result = None

\* No amount text is being parsed.
AmountIdle ==
    /\ amount_text = << >>
    /\ parsed = None
    /\ rendered = None
    /\ reparsed = None

InitAssemble ==
    /\ records \in NarrowSequences \cup WideSequences
    /\ statement = None
    /\ txn = IdleTransaction
    /\ expected_currency = USD
    /\ asset_id = 42
    /\ normalized = None
    /\ AmountIdle
    /\ SyncIdle

InitNormalize ==
    /\ records = << >>
    /\ statement = None
    /\ txn \in Transactions
    /\ expected_currency \in Currencies
    /\ asset_id \in AssetIds
    /\ normalized = None
    /\ AmountIdle
    /\ SyncIdle

\* fetch_venmo_transactions runs to its return.
Fetch ==
    /\ statement = None
    /\ statement' = Some(FetchVenmoTransactions(records))
    /\ UNCHANGED <<records, txn, expected_currency, asset_id, normalized, amountVars, syncVars>>

\* to_lunchmoney_transactions runs to its return.
Normalize ==
    /\ normalized = None
    /\ normalized' = Some(ToLunchmoneyTransactions(txn, expected_currency, asset_id))
    /\ UNCHANGED <<records, statement, txn, expected_currency, asset_id, amountVars, syncVars>>

NextAssemble == Fetch
NextNormalize == Normalize

SpecAssemble == InitAssemble /\ [][NextAssemble]_vars
SpecNormalize == InitNormalize /\ [][NextNormalize]_vars

----------------------------------------------------------------------------
(* The amount machine: Amount::from_str on a text, the parsed amount        *)
(* through Display and from_str again, and the parsed amount as the         *)
(* amount_total of a transaction that is normalized.                        *)

MaxAmountLen == 5

AmountChars == {"-", "+", " ", "$", "0", "1", "."}

\* Every text of up to MaxAmountLen of these characters
ShortTexts == UNION {[1..n -> AmountChars] : n \in 0..MaxAmountLen}

\* A marker and one digit more than f64::MAX has, with and without a minus
LongTexts ==
    {sign \o <<"$">> \o Repeat("9", F64MaxDigits + 1) : sign \in {<< >>, <<"-">>}}

AmountTexts == ShortTexts \cup LongTexts

InitAmount ==
    /\ records = << >>
    /\ statement = None
    /\ txn = IdleTransaction
    /\ expected_currency = USD
    /\ asset_id = 42
    /\ normalized = None
    /\ amount_text \in AmountTexts
    /\ parsed = None
    /\ rendered = None
    /\ reparsed = None
    /\ SyncIdle

Parse ==
    /\ parsed = None
    /\ parsed' = Some(FromStr(amount_text))
    /\ UNCHANGED <<records, statement, txn, expected_currency, asset_id, normalized,
                   amount_text, rendered, reparsed, syncVars>>

Render ==
    /\ IsSome(parsed) /\ Unwrap(parsed).ok
    /\ rendered = None
    /\ rendered' = Some(DisplayAmount(Unwrap(parsed).val))
    /\ UNCHANGED <<records, statement, txn, expected_currency, asset_id, normalized,
                   amount_text, parsed, reparsed, syncVars>>

Reparse ==
    /\ IsSome(rendered)
    /\ reparsed = None
    /\ reparsed' = Some(FromStr(Unwrap(rendered)))
    /\ UNCHANGED <<records, statement, txn, expected_currency, asset_id, normalized,
                   amount_text, parsed, rendered, syncVars>>

\* The parsed amount is the amount_total of a record with both parties named.
NormalizeParsed ==
    /\ IsSome(parsed) /\ Unwrap(parsed).ok
    /\ normalized = None
    /\ \E t \in TransactionTypes :
        /\ txn' = [IdleTransaction EXCEPT !.type_ = t,
                                          !.from = Some("Bob"),
                                          !.to = Some("Alice"),
                                          !.amount_total = Unwrap(parsed).val]
        /\ normalized' = Some(ToLunchmoneyTransactions(txn', expected_currency, asset_id))
    /\ UNCHANGED <<records, statement, expected_currency, asset_id, amountVars, syncVars>>

NextAmount == Parse \/ Render \/ Reparse \/ NormalizeParsed

SpecAmount == InitAmount /\ [][NextAmount]_vars

----------------------------------------------------------------------------
(* The sync run: cmd_sync_venmo_transactions from the return of             *)
(* fetch_venmo_transactions on.  The statement is what the fetch returned;  *)
(* the ledger answers each insert_transactions call with identifiers or     *)
(* with a failure.                                                          *)

MaxTransactions == 50

\* main.rs:151, chunks(50)
ChunkSize == 50

\* Iterator::collect::<Result<Vec<_>, _>> that drops the Err items.
CollectSkippingErrors(results) ==
    LET kept == SelectSeq(results, LAMBDA r : r.ok)
    IN Ok([i \in 1..Len(kept) |-> kept[i].val])

\* Iterator::collect::<Result<Vec<_>, _>>: the first Err, or every value
Collect(results) ==
    LET failed == {i \in 1..Len(results) : ~results[i].ok}
    IN IF failed = {} THEN Ok([i \in 1..Len(results) |-> results[i].val])
       ELSE results[CHOOSE i \in failed : \A j \in failed : i <= j]

\* Iterator::flatten over the entry lists
RECURSIVE Flatten(_)
Flatten(lists) ==
    IF lists = << >> THEN << >> ELSE Head(lists) \o Flatten(Tail(lists))

\* main.rs:137-145
NormalizeStatement(transactions, currency, asset) ==
    LET collected == Collect([i \in 1..Len(transactions) |->
                        ToLunchmoneyTransactions(transactions[i], currency, asset)])
    IN IF collected.ok THEN Ok(Flatten(collected.val)) ELSE collected

\* The chunk iterator handing out full chunks only.
HasNextChunkExact(entries, taken) == taken + ChunkSize <= Len(entries)

\* itertools chunks(50): a chunk follows while entries are left
HasNextChunk(entries, taken) == taken < Len(entries)

\* the next chunk: up to ChunkSize entries, in order
NextChunk(entries, taken) ==
    SubSeq(entries, taken + 1,
           IF taken + ChunkSize <= Len(entries) THEN taken + ChunkSize ELSE Len(entries))

\* What insert_transactions fails with: the request or the body read fails
\* (lunchmoney.rs:59, 62), the status is not OK (64-70), the body is not an
\* InsertTransactionResponse (72)
InsertErrors ==
    {Anyhow("hyper::Error"),
     Anyhow("Failed to insert Lunch Money transactions, code 500"),
     Anyhow("serde_json::Error")}

\* The identifier lists the ledger answers call number k with: one identifier
\* for every entry of the batch, or one fewer
ReturnedIds(batch, k) ==
    {[i \in 1..m |-> 1000 * k + i] : m \in {Len(batch), Len(batch) - 1}}

\* A statement row that normalizes to `count` entries (1, 2 or 3), or, with a
\* flaw, to an error: a marker other than "$", or a Payment without `from`.
SyncTransaction(i, id, count, flaw) ==
    [id |-> id, datetime |-> FromUtcDatetime(i),
     type_ |-> IF count = 3 THEN "Charge" ELSE "Payment",
     status |-> "Complete", note |-> None,
     from |-> IF flaw = "payee" /\ count # 3 THEN None ELSE Some("Bob"),
     to |-> IF flaw = "payee" /\ count = 3 THEN None ELSE Some("Alice"),
     amount_total |-> Amount(IF flaw = "currency" THEN "R" ELSE "$", F64(FALSE, 10000 * i)),
     funding_source |-> IF count >= 2 THEN Some("Chase ****1234") ELSE None,
     destination |-> IF count = 3 THEN Some("Bank") ELSE None]

\* The statement of n rows with ids 1..n: `shape` entries per row, or 1, 2, 3
\* in turn for shape 0; the row at currency_at has the wrong marker, the row
\* at payee_at lacks its payee field (0: no such row); with `dup` the second
\* row repeats the id of the first.
SyncStatement(n, shape, currency_at, payee_at, dup) ==
    Statement(Amount("$", F64(FALSE, 0)), Amount("$", F64(FALSE, 10000)),
        [i \in 1..n |->
            SyncTransaction(i,
                IF dup /\ i = 2 THEN 1 ELSE i,
                IF shape = 0 THEN (i % 3) + 1 ELSE shape,
                IF i = currency_at THEN "currency"
                ELSE IF i = payee_at THEN "payee" ELSE "none")])

SyncStatements ==
    {SyncStatement(n, shape, 0, 0, dup) :
        n \in 0..MaxTransactions, shape \in 0..3, dup \in BOOLEAN}
    \cup
    {SyncStatement(n, shape, c, p, FALSE) :
        n \in 4..MaxTransactions, shape \in {0, 1},
        c \in {0, 1, 3, MaxTransactions}, p \in {0, 2, 4, MaxTransactions - 1}}

\* What fetch_venmo_transactions returns
SyncFetchResults ==
    {Ok(st) : st \in SyncStatements} \cup {Err(Anyhow(NoEndingRecordMsg))}

Init ==
    /\ records = << >>
    /\ statement = None
    /\ txn = IdleTransaction
    /\ expected_currency = USD
    /\ asset_id = 42
    /\ normalized = None
    /\ AmountIdle
    /\ pc = "fetch"
    /\ lunchmoney_transactions = << >>
    /\ position = 0
    /\ calls = << >>
    /\ outcomes = << >>
    /\ in_flight = 0
    /\ synced_transactions = << >>
    /\ run_result = None

\* main.rs:128-135: the fetch returns; its error ends the run
SyncFetch ==
    /\ pc = "fetch"
    /\ \E r \in SyncFetchResults :
        /\ statement' = Some(r)
        /\ IF r.ok THEN pc' = "normalize" /\ run_result' = run_result
                   ELSE pc' = "done" /\ run_result' = Some(r)
    /\ UNCHANGED <<records, txn, expected_currency, asset_id, normalized, amountVars,
                   lunchmoney_transactions, position, calls, outcomes, in_flight,
                   synced_transactions>>

\* main.rs:137-145: every transaction is normalized; the first error ends
\* the run
NormalizeAll ==
    /\ pc = "normalize"
    /\ LET r == NormalizeStatement(Unwrap(statement).val.transactions,
                                   expected_currency, asset_id)
       IN IF r.ok
          THEN /\ lunchmoney_transactions' = r.val
               /\ pc' = "chunk"
               /\ run_result' = run_result
          ELSE /\ lunchmoney_transactions' = lunchmoney_transactions
               /\ pc' = "done"
               /\ run_result' = Some(r)
    /\ UNCHANGED <<records, statement, txn, expected_currency, asset_id, normalized,
                   amountVars, position, calls, outcomes, in_flight, synced_transactions>>

\* main.rs:151-156: the next chunk is collected and insert_transactions is
\* called with it
SubmitChunk ==
    /\ pc = "chunk"
    /\ HasNextChunk(lunchmoney_transactions, position)
    /\ LET chunk == NextChunk(lunchmoney_transactions, position)
       IN /\ calls' = Append(calls, chunk)
          /\ position' = position + Len(chunk)
    /\ in_flight' = in_flight + 1
    /\ pc' = "await"
    /\ UNCHANGED <<records, statement, txn, expected_currency, asset_id, normalized,
                   amountVars, lunchmoney_transactions, outcomes, synced_transactions,
                   run_result>>

\* lunchmoney.rs:74 and main.rs:152: the call returns identifiers, which
\* extend synced_transactions
InsertReturns ==
    /\ pc = "await"
    /\ \E ids \in ReturnedIds(calls[Len(calls)], Len(calls)) :
        /\ outcomes' = Append(outcomes, Ok(ids))
        /\ synced_transactions' = synced_transactions \o ids
    /\ in_flight' = in_flight - 1
    /\ pc' = "chunk"
    /\ UNCHANGED <<records, statement, txn, expected_currency, asset_id, normalized,
                   amountVars, lunchmoney_transactions, position, calls, run_result>>

\* InsertFails with the error dropped and the loop going on.
InsertFailsAndContinues ==
    /\ pc = "await"
    /\ \E e \in InsertErrors : outcomes' = Append(outcomes, Err(e))
    /\ in_flight' = in_flight - 1
    /\ pc' = "chunk"
    /\ UNCHANGED <<records, statement, txn, expected_currency, asset_id, normalized,
                   amountVars, lunchmoney_transactions, position, calls,
                   synced_transactions, run_result>>

\* lunchmoney.rs:59-72 and the ? of main.rs:158: the call fails and its error
\* ends the run
InsertFails ==
    /\ pc = "await"
    /\ \E e \in InsertErrors :
        /\ outcomes' = Append(outcomes, Err(e))
        /\ run_result' = Some(Err(e))
    /\ in_flight' = in_flight - 1
    /\ pc' = "done"
    /\ UNCHANGED <<records, statement, txn, expected_currency, asset_id, normalized,
                   amountVars, lunchmoney_transactions, position, calls,
                   synced_transactions>>

\* main.rs:160-164: no chunk is left; the run returns Ok(())
SyncFinish ==
    /\ pc = "chunk"
    /\ ~HasNextChunk(lunchmoney_transactions, position)
    /\ run_result' = Some(Ok("()"))
    /\ pc' = "done"
    /\ UNCHANGED <<records, statement, txn, expected_currency, asset_id, normalized,
                   amountVars, lunchmoney_transactions, position, calls, outcomes,
                   in_flight, synced_transactions>>

Next ==
    \/ SyncFetch
    \/ NormalizeAll
    \/ SubmitChunk
    \/ InsertReturns
    \/ InsertFails
    \/ SyncFinish

Spec == Init /\ [][Next]_vars

----------------------------------------------------------------------------
(* Properties of the assembler, under SpecAssemble *)

Fetched == IsSome(statement)
FetchResult == Unwrap(statement)

AllDecoded == \A i \in 1..Len(records) : records[i].ok
HasRequired(r) == \A f \in RequiredFields : IsSome(r[f])
InBetween == 2..(Len(records) - 1)
InBetweenValid == \A i \in InBetween : records[i].ok /\ HasRequired(records[i].val)

NamesBeginningBalance(e) ==
    /\ e.variant = "anyhow"
    /\ e.msg \in {NoBeginningRecordMsg, BeginningBalanceUnsetMsg}
NamesEndingBalance(e) ==
    /\ e.variant = "anyhow"
    /\ e.msg \in {NoEndingRecordMsg, EndingBalanceUnsetMsg}

\* The first record carries a beginning balance, the last an ending balance,
\* and the N >= 0 records in between are transaction rows.
WellFormedStatement ==
    /\ Len(records) >= 2
    /\ AllDecoded
    /\ IsSome(records[1].val.beginning_balance)
    /\ IsSome(records[Len(records)].val.ending_balance)
    /\ InBetweenValid

\* C1: a well-formed record sequence with N rows between its two boundary
\* records assembles into a Statement with exactly N transactions, the i-th
\* being the i-th in-between record lifted, in source order; the boundary
\* records are not among them, and N = 0 gives the empty list.
C1_ExactlyTheInBetweenRows ==
    (Fetched /\ WellFormedStatement) =>
        /\ FetchResult.ok
        /\ Len(FetchResult.val.transactions) = Len(records) - 2
        /\ \A i \in 1..(Len(records) - 2) :
               LET t == FetchResult.val.transactions[i]
                   r == records[i + 1].val
               IN /\ t.id = Unwrap(r.id)
                  /\ t.datetime = [naive_utc |-> Unwrap(r.datetime), offset |-> "Utc"]
                  /\ t.type_ = Unwrap(r.type_)
                  /\ t.status = Unwrap(r.status)
                  /\ t.amount_total = Unwrap(r.amount_total)
                  /\ \A f \in CopiedFields : t[f] = r[f]
        /\ FetchResult.val.beginning_balance = Unwrap(records[1].val.beginning_balance)
        /\ FetchResult.val.ending_balance =
               Unwrap(records[Len(records)].val.ending_balance)

\* Two different rows between the boundary records, assembled.
C1_Witness ==
    /\ Fetched /\ WellFormedStatement
    /\ Len(records) = 4
    /\ records[2] # records[3]
    /\ FetchResult.ok

\* C2: assembly fails naming the beginning balance when there is no record
\* or the first record has no beginning balance, whatever follows; with a
\* beginning balance and valid rows in between it fails naming the ending
\* balance when the last record has no ending balance.
C2_MissingBoundary ==
    Fetched =>
        /\ (Len(records) = 0 \/ (records[1].ok /\ IsNone(records[1].val.beginning_balance)))
               => (~FetchResult.ok /\ NamesBeginningBalance(FetchResult.err))
        /\ ( /\ Len(records) >= 1
             /\ AllDecoded
             /\ IsSome(records[1].val.beginning_balance)
             /\ InBetweenValid
             /\ IsNone(records[Len(records)].val.ending_balance) )
               => (~FetchResult.ok /\ NamesEndingBalance(FetchResult.err))

\* The first record lacks the beginning balance and the rest is a complete
\* statement tail.
C2_Witness ==
    /\ Fetched
    /\ Len(records) >= 3
    /\ AllDecoded
    /\ IsNone(records[1].val.beginning_balance)
    /\ InBetweenValid
    /\ IsSome(records[Len(records)].val.ending_balance)
    /\ ~FetchResult.ok

IsConversionFailure(e) == e.variant = "anyhow" /\ e.msg = ConvertContextMsg

\* C3: the conversion of a record succeeds exactly when id, datetime, type,
\* status and total amount are present; its error names an absent field and
\* carries the record; on success the five optional fields are copied.  In
\* assembly an invalid in-between record leaves no Statement.
C3_RecordValidation ==
    Fetched =>
        /\ \A i \in InBetween :
               (records[i].ok /\ ~HasRequired(records[i].val)) => ~FetchResult.ok
        /\ (~FetchResult.ok /\ IsConversionFailure(FetchResult.err)) =>
               LET src == FetchResult.err.source IN
               /\ src.variant = "InvalidRecord"
               /\ src.field \in RequiredFields
               /\ IsNone(src.record[src.field])
               /\ src.record = FetchResult.err.record
               /\ \E i \in InBetween :
                      /\ records[i] = Ok(src.record)
                      /\ \A j \in 2..(i - 1) : HasRequired(records[j].val)
        /\ ( /\ AllDecoded
             /\ Len(records) >= 1
             /\ IsSome(records[1].val.beginning_balance)
             /\ ~InBetweenValid )
               => (~FetchResult.ok /\ IsConversionFailure(FetchResult.err))
        /\ FetchResult.ok =>
               /\ Len(FetchResult.val.transactions) = Len(records) - 2
               /\ \A i \in InBetween :
                      /\ HasRequired(records[i].val)
                      /\ \A f \in CopiedFields :
                             FetchResult.val.transactions[i - 1][f] = records[i].val[f]

\* An in-between record that has an id but no datetime stopped the assembly.
C3_Witness ==
    /\ Fetched
    /\ ~FetchResult.ok
    /\ IsConversionFailure(FetchResult.err)
    /\ FetchResult.err.source.field = "datetime"
    /\ Len(records) >= 4

----------------------------------------------------------------------------
(* Properties of the normalizer, under SpecNormalize *)

Normalized == IsSome(normalized)
Result == Unwrap(normalized)
Succeeded == Normalized /\ Result.ok
Entries == Result.val

MarkerMatches == txn.amount_total.currency = expected_currency.symbol
Positive == ~txn.amount_total.val.neg /\ txn.amount_total.val.mag > 0
Negative == txn.amount_total.val.neg /\ txn.amount_total.val.mag > 0
WrittenMinus == txn.amount_total.val.neg

\* What the inputs are called, written out.
IsoCode ==
    CASE expected_currency = USD -> "USD"
      [] expected_currency = AUD -> "AUD"
      [] expected_currency = ZAR -> "ZAR"
IsoCodeLowercase ==
    CASE expected_currency = USD -> "usd"
      [] expected_currency = AUD -> "aud"
      [] expected_currency = ZAR -> "zar"
IdDecimal == CASE txn.id = 7 -> "7" [] txn.id = 120 -> "120"
NegatedAmount ==
    [f64 |-> [neg |-> ~txn.amount_total.val.neg, mag |-> txn.amount_total.val.mag]]

\* C4: a marker other than the expected currency's symbol gives the
\* currency-mismatch error (symbol, ISO code, marker found) and no entry, for
\* every type and also when the field the payee needs is absent.
C4_CurrencyMismatch ==
    (Normalized /\ ~MarkerMatches) =>
        /\ ~Result.ok
        /\ Result.err = [variant |-> "WrongCurrencyError",
                         symbol |-> expected_currency.symbol,
                         code |-> IsoCode,
                         got |-> txn.amount_total.currency]

\* A Standard Transfer without destination, in the wrong currency.
C4_Witness ==
    /\ Normalized /\ ~MarkerMatches
    /\ txn.type_ = "StandardTransfer"
    /\ IsNone(txn.destination)
    /\ ~Result.ok

\* The payee table of the documentation: the field each row reads.
TableField ==
    CASE txn.type_ = "StandardTransfer" -> "destination"
      [] txn.type_ = "Charge" /\ Positive -> "to"
      [] txn.type_ = "Charge" /\ Negative -> "from"
      [] txn.type_ \in {"Payment", "MerchantTransaction"} /\ Positive -> "from"
      [] txn.type_ \in {"Payment", "MerchantTransaction"} /\ Negative -> "to"
      [] OTHER -> "undetermined"

OtherOfPaymentAndMerchant ==
    IF txn.type_ = "Payment" THEN "MerchantTransaction" ELSE "Payment"

\* C5: with the right currency and the row's field present, the payee of the
\* first entry is "TRANSFER TO " + destination for a Standard Transfer, `to`
\* for a positive Charge, `from` for a negative Charge, `from` for a positive
\* Payment or Merchant Transaction and `to` for a negative one; Payment and
\* Merchant Transaction resolve alike.
C5_PayeeTable ==
    (Normalized /\ MarkerMatches) =>
        /\ (TableField # "undetermined" /\ IsSome(txn[TableField])) =>
               /\ Result.ok
               /\ Entries[1].payee =
                      Some(IF txn.type_ = "StandardTransfer"
                           THEN "TRANSFER TO " \o Unwrap(txn.destination)
                           ELSE Unwrap(txn[TableField]))
        /\ txn.type_ \in {"Payment", "MerchantTransaction"} =>
               LET other == ToLunchmoneyTransactions(
                                [txn EXCEPT !.type_ = OtherOfPaymentAndMerchant],
                                expected_currency, asset_id)
               IN /\ other.ok = Result.ok
                  /\ Result.ok => other.val = Entries
                  /\ ~Result.ok => /\ other.err.field = Result.err.field
                                   /\ other.err.rule = Result.err.rule

\* A negative Charge that names both parties: the payee is the sender.
C5_Witness ==
    /\ Succeeded /\ MarkerMatches
    /\ txn.type_ = "Charge" /\ Negative
    /\ txn.from = Some("Bob") /\ txn.to = Some("Alice")
    /\ Entries[1].payee = Some("Bob")

\* The field and the rule of the row, the row of a zero amount being chosen
\* by the written sign.
RowField ==
    CASE txn.type_ = "StandardTransfer" -> "destination"
      [] txn.type_ = "Charge" -> IF WrittenMinus THEN "from" ELSE "to"
      [] OTHER -> IF WrittenMinus THEN "to" ELSE "from"
RowRule ==
    CASE txn.type_ = "StandardTransfer" ->
            "'Transaction Type' is set to 'Standard Transfer'"
      [] txn.type_ = "Charge" ->
            IF WrittenMinus
            THEN "'Transaction Type' is set to 'Charge' and 'Amount' is negative"
            ELSE "'Transaction Type' is set to 'Charge' and 'Amount' is positive"
      [] OTHER ->
            IF WrittenMinus
            THEN "'Transaction Type' is set to 'Payment' or 'Merchant Transaction' and 'Amount' is negative"
            ELSE "'Transaction Type' is set to 'Payment' or 'Merchant Transaction' and 'Amount' is positive"

\* C6: with the right currency, an absent row field fails with
\* InvalidTransaction naming that field, the rule and the transaction, and no
\* entry; a Standard Transfer without destination fails so even when `to`
\* and `from` are there.
C6_MissingPayeeField ==
    (Normalized /\ MarkerMatches /\ IsNone(txn[RowField])) =>
        /\ ~Result.ok
        /\ Result.err = [variant |-> "InvalidTransaction", field |-> RowField,
                         rule |-> RowRule, transaction |-> txn]

\* A Standard Transfer that names both parties but no destination.
C6_Witness ==
    /\ Normalized /\ MarkerMatches
    /\ txn.type_ = "StandardTransfer"
    /\ IsNone(txn.destination) /\ IsSome(txn.to) /\ IsSome(txn.from)
    /\ ~Result.ok

\* C7: the first entry of a successful result has the transaction's date
\* and signed amount, the expected currency's ISO code in lowercase, the
\* note as it is, the given asset id, the id in decimal and no suffix as
\* external id, and status uncleared.
C7_PrimaryEntry ==
    Succeeded =>
        /\ Len(Entries) >= 1
        /\ Entries[1].date = txn.datetime
        /\ Entries[1].amount = [f64 |-> txn.amount_total.val]
        /\ Entries[1].currency = Some(IsoCodeLowercase)
        /\ Entries[1].notes = txn.note
        /\ Entries[1].asset_id = Some(asset_id)
        /\ Entries[1].external_id = Some(IdDecimal)
        /\ Entries[1].status = "Uncleared"

\* A three-digit id, a currency other than the default, no note.
C7_Witness ==
    /\ Succeeded
    /\ txn.id = 120 /\ expected_currency = AUD /\ asset_id = 1001
    /\ IsNone(txn.note)
    /\ Entries[1].external_id = Some("120")

FundingExpected ==
    /\ IsSome(txn.funding_source)
    /\ Unwrap(txn.funding_source) \notin {"", "Venmo balance"}

IsFundingShadow(e) ==
    /\ e.payee = Some("TRANSFER FROM " \o Unwrap(txn.funding_source))
    /\ e.amount = NegatedAmount
    /\ e.external_id = Some(IdDecimal \o "T")
    /\ e.notes = IF IsSome(txn.note)
                 THEN Some("To fund Venmo transaction with note: '"
                           \o Unwrap(txn.note) \o "'")
                 ELSE None

\* C8: a successful result has a funding shadow exactly when the funding
\* source is present, not empty and not "Venmo balance", whatever the type;
\* it is the second entry, with payee "TRANSFER FROM " + funding source, the
\* negated amount, external id id + "T" and the funding note.
C8_FundingShadow ==
    Succeeded =>
        /\ (\E i \in 1..Len(Entries) : Entries[i].external_id = Some(IdDecimal \o "T"))
               <=> FundingExpected
        /\ FundingExpected => (Len(Entries) >= 2 /\ IsFundingShadow(Entries[2]))
        /\ ( /\ txn.type_ = "Charge" /\ Positive /\ txn.to = Some("Alice")
             /\ txn.funding_source = Some("Chase ****1234")
             /\ IsNone(txn.destination) )
               => /\ Len(Entries) = 2
                  /\ Entries[1].payee = Some("Alice")
                  /\ Entries[1].external_id = Some(IdDecimal)
                  /\ Entries[2].payee = Some("TRANSFER FROM Chase ****1234")

\* The documented example: a positive Charge to Alice funded from a bank.
C8_Witness ==
    /\ Succeeded
    /\ txn.type_ = "Charge" /\ Positive /\ txn.to = Some("Alice")
    /\ txn.funding_source = Some("Chase ****1234")
    /\ IsNone(txn.destination)
    /\ IsSome(txn.note)
    /\ Len(Entries) = 2

DestinationExpected ==
    /\ IsSome(txn.destination)
    /\ Unwrap(txn.destination) \notin {"", "Venmo balance"}
    /\ txn.type_ # "StandardTransfer"

IsDestinationShadow(e) ==
    /\ e.payee = Some("TRANSFER TO " \o Unwrap(txn.destination))
    /\ e.amount = NegatedAmount
    /\ e.external_id = Some(IdDecimal \o "TDEPOSIT")
    /\ e.notes = IF IsSome(txn.note)
                 THEN Some("From Venmo transaction with note: '"
                           \o Unwrap(txn.note) \o "'")
                 ELSE None

\* C9: a successful result has a destination shadow exactly when the
\* destination is present, not empty, not "Venmo balance" and the type is not
\* Standard Transfer; it is the last entry, after the funding shadow if there
\* is one, with payee "TRANSFER TO " + destination, the negated amount,
\* external id id + "TDEPOSIT" and the destination note.
C9_DestinationShadow ==
    Succeeded =>
        /\ (\E i \in 1..Len(Entries) :
                Entries[i].external_id = Some(IdDecimal \o "TDEPOSIT"))
               <=> DestinationExpected
        /\ DestinationExpected =>
               /\ Len(Entries) = (IF FundingExpected THEN 3 ELSE 2)
               /\ IsDestinationShadow(Entries[Len(Entries)])
        /\ (txn.type_ = "Payment" /\ Negative /\ txn.destination = Some("Venmo balance"))
               => Len(Entries) = (IF FundingExpected THEN 2 ELSE 1)
        /\ (txn.type_ = "Payment" /\ Negative /\ txn.destination = Some("Checking"))
               => Entries[Len(Entries)].external_id = Some(IdDecimal \o "TDEPOSIT")

\* A negative Payment funded from a bank and deposited to "Checking".
C9_Witness ==
    /\ Succeeded
    /\ txn.type_ = "Payment" /\ Negative
    /\ txn.destination = Some("Checking")
    /\ FundingExpected
    /\ Len(Entries) = 3

StandardTransferWithDestination ==
    /\ Normalized /\ MarkerMatches
    /\ txn.type_ = "StandardTransfer"
    /\ IsSome(txn.destination)

\* C10 as claimed: a Standard Transfer with a destination and the right
\* marker yields exactly one entry.
C10_ExactlyOneEntry ==
    StandardTransferWithDestination =>
        /\ Result.ok
        /\ Len(Entries) = 1
        /\ Entries[1].payee = Some("TRANSFER TO " \o Unwrap(txn.destination))
        /\ Entries[1].amount = [f64 |-> txn.amount_total.val]

\* C10 as amended: a Standard Transfer with a destination and the right
\* marker yields the primary entry "TRANSFER TO " + destination with the
\* amount unchanged and never a destination shadow: one entry when the
\* funding source is absent, empty or "Venmo balance", else that entry and
\* the funding shadow.
C10_NoDestinationShadow ==
    StandardTransferWithDestination =>
        /\ Result.ok
        /\ Len(Entries) = (IF FundingExpected THEN 2 ELSE 1)
        /\ Entries[1].payee = Some("TRANSFER TO " \o Unwrap(txn.destination))
        /\ Entries[1].amount = [f64 |-> txn.amount_total.val]
        /\ \A i \in 1..Len(Entries) :
               Entries[i].external_id # Some(IdDecimal \o "TDEPOSIT")

\* The documented example: destination "Bank", amount -12.3400.
C10_Witness ==
    /\ StandardTransferWithDestination
    /\ txn.destination = Some("Bank")
    /\ txn.amount_total.val = [neg |-> TRUE, mag |-> 123400]
    /\ ~FundingExpected
    /\ Result.ok /\ Len(Entries) = 1


ExternalIdScheme == {IdDecimal, IdDecimal \o "T", IdDecimal \o "TDEPOSIT"}

\* C11: a successful result has one to three entries; they all have the
\* transaction's date, the given asset id, the same currency code and status
\* uncleared, and their external ids are different ones of id, id + "T" and
\* id + "TDEPOSIT".
C11_EntriesShareAndDiffer ==
    Succeeded =>
        /\ Len(Entries) \in 1..3
        /\ \A i \in 1..Len(Entries) :
               /\ Entries[i].date = txn.datetime
               /\ Entries[i].asset_id = Some(asset_id)
               /\ Entries[i].currency = Some(IsoCodeLowercase)
               /\ Entries[i].status = "Uncleared"
               /\ IsSome(Entries[i].external_id)
               /\ Unwrap(Entries[i].external_id) \in ExternalIdScheme
        /\ \A i, j \in 1..Len(Entries) :
               i # j => Entries[i].external_id # Entries[j].external_id

\* A transaction that expands into all three entries.
C11_Witness ==
    /\ Succeeded
    /\ Len(Entries) = 3
    /\ Entries[2].external_id = Some(IdDecimal \o "T")
    /\ Entries[3].external_id = Some(IdDecimal \o "TDEPOSIT")

\* C17: a Statement is returned only for two records or more; one record,
\* even with both balances, fails for want of an ending balance record.
C17_TwoBoundaryRecords ==
    Fetched =>
        /\ FetchResult.ok => Len(records) >= 2
        /\ ( /\ Len(records) = 1
             /\ records[1].ok
             /\ IsSome(records[1].val.beginning_balance) )
               => /\ ~FetchResult.ok
                  /\ FetchResult.err =
                         [variant |-> "anyhow",
                          msg |-> "Expected there to be an ending balance record, found none in response"]

\* The single record that carries both balances.
C17_Witness ==
    /\ Fetched
    /\ Len(records) = 1
    /\ records[1].ok
    /\ IsSome(records[1].val.beginning_balance)
    /\ IsSome(records[1].val.ending_balance)
    /\ ~FetchResult.ok

----------------------------------------------------------------------------
(* Properties of amounts, under SpecAmount *)

Parsed == IsSome(parsed)
ParseResult == Unwrap(parsed)

\* The characters of the text from position `from` on are a number: digits
\* and at most one decimal point, with a digit among them.
NumberFrom(from) ==
    /\ from <= Len(amount_text)
    /\ \A i \in from..Len(amount_text) : amount_text[i] \in {"0", "1", "9", "."}
    /\ Cardinality({i \in from..Len(amount_text) : amount_text[i] = "."}) <= 1
    /\ \E i \in from..Len(amount_text) : amount_text[i] # "."

\* The text is `sign` sign characters, `space` spaces, one character that is
\* no digit, and a number.
ShapeOf(sign, space) ==
    /\ Len(amount_text) >= sign + space + 2
    /\ sign = 1 => amount_text[1] \in {"-", "+"}
    /\ space = 1 => amount_text[sign + 1] = " "
    /\ amount_text[sign + space + 1] \notin {"0", "1", "9"}
    /\ NumberFrom(sign + space + 2)

\* The number from position `from` on, under the sign bit `minus`
ValueFrom(from, minus) ==
    [ParseF64(SubSeq(amount_text, from, Len(amount_text))).val EXCEPT !.neg = minus]

\* C15 as stated: from_str succeeds only on a text of the exact shape
\* [optional '+' or '-'][one non-digit marker][digits with at most one
\* decimal point], with nothing before, between or after these parts.
C15_ExactShapeOnly ==
    (Parsed /\ ParseResult.ok) => \E sign \in {0, 1} : ShapeOf(sign, 0)

\* C15, amended: from_str succeeds exactly on the texts of the shape
\* [optional '+' or '-'][optional single space][one non-digit marker][digits
\* with at most one decimal point]; every other text fails with
\* ParseAmountError carrying the original text; on success the marker is the
\* marker character of such a reading, verbatim, and the value is its digits
\* with its sign applied.
C15_ShapeWithOptionalSpace ==
    Parsed =>
        /\ ParseResult.ok <=> \E sign \in {0, 1}, space \in {0, 1} : ShapeOf(sign, space)
        /\ ~ParseResult.ok =>
              ParseResult.err = [variant |-> "ParseAmountError", text |-> amount_text]
        /\ ParseResult.ok =>
              \E sign \in {0, 1}, space \in {0, 1} :
                  /\ ShapeOf(sign, space)
                  /\ ParseResult.val.currency = amount_text[sign + space + 1]
                  /\ ParseResult.val.val =
                        ValueFrom(sign + space + 2, sign = 1 /\ amount_text[1] = "-")

\* "- $1" is parsed: minus one, marker "$"
C15_Witness ==
    /\ Parsed /\ ParseResult.ok
    /\ amount_text = <<"-", " ", "$", "1">>
    /\ ParseResult.val = [currency |-> "$", val |-> [neg |-> TRUE, mag |-> 10000]]

Reparsed == IsSome(reparsed)
\* The number of characters after the decimal point of the text
FractionDigits ==
    LET dots == {i \in 1..Len(amount_text) : amount_text[i] = "."}
    IN IF dots = {} THEN 0 ELSE Len(amount_text) - (CHOOSE i \in dots : \A j \in dots : i >= j)

\* C16: a valid amount text with at most four fractional digits, parsed and
\* rendered by Display, parses again to the same marker and the same signed
\* value.
C16_RoundTrip ==
    (Reparsed /\ FractionDigits <= 4) =>
        /\ Unwrap(reparsed).ok
        /\ Unwrap(reparsed).val = ParseResult.val

\* The round trip of the texts whose value f64 holds as a finite number
C16_FiniteRoundTrip ==
    (Reparsed /\ Len(amount_text) <= F64MaxDigits) =>
        /\ Unwrap(reparsed).ok
        /\ Unwrap(reparsed).val = ParseResult.val

TextHasMinus == amount_text[1] = "-" /\ amount_text[2] \notin {"0", "1", "9"}
IsZero(v) == IsFinite(v) /\ v.mag = 0

\* C19: for Charge, Payment and MerchantTransaction every amount, zero
\* included, resolves to a payee by the row of its written sign: without a
\* minus sign Charge takes `to` and Payment/MerchantTransaction take `from`,
\* with a minus sign Charge takes `from` and the others take `to`.
C19_PayeeTotalOverAmount ==
    (Parsed /\ ParseResult.ok /\ Normalized /\ txn.type_ # "StandardTransfer"
        /\ txn.amount_total.currency = "$") =>
        /\ Result.ok
        /\ Entries[1].payee =
              Some(IF (txn.type_ = "Charge") = TextHasMinus THEN "Bob" ELSE "Alice")

\* "-$0" on a Charge takes the payee from `from`
C19_Witness ==
    /\ Parsed /\ ParseResult.ok /\ Normalized
    /\ amount_text = <<"-", "$", "0">>
    /\ txn.type_ = "Charge"
    /\ IsZero(txn.amount_total.val)
    /\ Result.ok /\ Entries[1].payee = Some("Bob")

----------------------------------------------------------------------------
(* Properties of the sync run, under Spec *)

StatementFetched == IsSome(statement) /\ Unwrap(statement).ok
Rows == Unwrap(statement).val.transactions
RunEnded == pc = "done" /\ IsSome(run_result)
RunSucceeded == RunEnded /\ Unwrap(run_result).ok
Flattened == lunchmoney_transactions

\* The decimal text of an id below 100
Decimal(id) ==
    IF id < 10 THEN DecimalDigits[id + 1]
    ELSE DecimalDigits[(id \div 10) + 1] \o DecimalDigits[(id % 10) + 1]

\* The external ids of the entries of one row: primary, funding, destination
RowIds(t) ==
    <<Decimal(t.id)>>
    \o (IF t.funding_source = None THEN << >> ELSE <<Decimal(t.id) \o "T">>)
    \o (IF t.destination = None THEN << >> ELSE <<Decimal(t.id) \o "TDEPOSIT">>)

\* The number of entries of the rows before row i
RECURSIVE EntriesBefore(_)
EntriesBefore(i) ==
    IF i <= 1 THEN 0 ELSE EntriesBefore(i - 1) + Len(RowIds(Rows[i - 1]))

\* The flattened list is the rows' entries in statement order, each row's in
\* primary / funding / destination order.
InStatementOrder ==
    /\ Len(Flattened) = EntriesBefore(Len(Rows) + 1)
    /\ \A i \in 1..Len(Rows) : \A m \in 1..Len(RowIds(Rows[i])) :
          LET e == Flattened[EntriesBefore(i) + m]
          IN /\ e.external_id = Some(RowIds(Rows[i])[m])
             /\ e.date = Rows[i].datetime

\* C12: when every submission succeeds, n entries are submitted in
\* ceil(n/50) calls; every call but the last carries 50 entries, the last 1
\* to 50; the batches in call order make up the flattened list, which is in
\* statement order; the collected identifiers are the returned lists in call
\* order.
C12_BatchesCoverTheList ==
    RunSucceeded =>
        /\ Len(calls) = (Len(Flattened) + 49) \div 50
        /\ \A k \in 1..Len(calls) :
              /\ k < Len(calls) => Len(calls[k]) = 50
              /\ Len(calls[k]) \in 1..50
              /\ \A i \in 1..Len(calls[k]) : calls[k][i] = Flattened[50 * (k - 1) + i]
        /\ Len(calls) > 0 =>
              50 * (Len(calls) - 1) + Len(calls[Len(calls)]) = Len(Flattened)
        /\ InStatementOrder
        /\ Len(outcomes) = Len(calls)
        /\ synced_transactions = Flatten([k \in 1..Len(outcomes) |-> outcomes[k].val])

\* 120 entries went out in three calls of 50, 50 and 20.
C12_Witness ==
    /\ RunSucceeded
    /\ Len(Flattened) = 120
    /\ Len(calls) = 3
    /\ Len(calls[1]) = 50 /\ Len(calls[2]) = 50 /\ Len(calls[3]) = 20
    /\ Len(synced_transactions) >= 117

\* C13: the calls are a prefix of the ordered batch list; at most one call is
\* in flight and it was issued after every earlier call returned success; a
\* failed call is the last call, ends the run with its error, and is followed
\* by no retry and no other call.
C13_OneBatchAtATime ==
    /\ in_flight \in {0, 1}
    /\ Len(calls) = Len(outcomes) + in_flight
    /\ \A k \in 1..Len(calls) :
          /\ 50 * (k - 1) < Len(Flattened)
          /\ calls[k] = [i \in 1..(IF 50 * k <= Len(Flattened) THEN 50
                                   ELSE Len(Flattened) - 50 * (k - 1)) |->
                            Flattened[50 * (k - 1) + i]]
          /\ k < Len(calls) => outcomes[k].ok
    /\ \A k \in 1..Len(outcomes) :
          ~outcomes[k].ok =>
              /\ k = Len(calls)
              /\ pc = "done"
              /\ run_result = Some(outcomes[k])

\* The second of three batches failed: the run ended and the third never went
\* out.
C13_Witness ==
    /\ RunEnded /\ ~Unwrap(run_result).ok
    /\ Len(Flattened) > 100
    /\ Len(calls) = 2 /\ Len(outcomes) = 2
    /\ outcomes[1].ok /\ ~outcomes[2].ok
    /\ Len(synced_transactions) = Len(outcomes[1].val)

\* The rows that cannot be normalized: a marker other than the expected
\* symbol, or no payee field (the amounts of the statement are positive)
FailingRows ==
    {i \in 1..Len(Rows) :
        \/ Rows[i].amount_total.currency # "$"
        \/ Rows[i].type_ = "Charge" /\ Rows[i].to = None
        \/ Rows[i].type_ = "Payment" /\ Rows[i].from = None}
FirstFailingRow == CHOOSE i \in FailingRows : \A j \in FailingRows : i <= j

\* C14: when a row of the statement fails normalization, the run ends with
\* the error of the first such row and no call to the ledger is made.
C14_NormalizationFailFast ==
    (StatementFetched /\ pc # "normalize" /\ FailingRows # {}) =>
        /\ RunEnded /\ ~Unwrap(run_result).ok
        /\ LET t == Rows[FirstFailingRow]
               e == Unwrap(run_result).err
           IN IF t.amount_total.currency # "$"
              THEN e = [variant |-> "WrongCurrencyError", symbol |-> "$",
                        code |-> "USD", got |-> t.amount_total.currency]
              ELSE /\ e.variant = "InvalidTransaction"
                   /\ e.field = (IF t.type_ = "Charge" THEN "to" ELSE "from")
                   /\ e.transaction = t
        /\ calls = << >>
        /\ in_flight = 0
        /\ lunchmoney_transactions = << >>
        /\ synced_transactions = << >>

\* The fourth row lacks its payee field and the last row has the wrong
\* marker, after rows that normalize: the run ended on the fourth row's error.
C14_Witness ==
    /\ StatementFetched /\ RunEnded
    /\ Len(Rows) = 50
    /\ FailingRows = {4, 50}
    /\ ~Unwrap(run_result).ok
    /\ Unwrap(run_result).err.variant = "InvalidTransaction"
    /\ Unwrap(run_result).err.transaction = Rows[4]
    /\ calls = << >>

\* The flattened list has just been built; it does not change afterwards.
JustNormalized == pc = "chunk" /\ position = 0
DistinctIds == \A i, j \in 1..Len(Rows) : i # j => Rows[i].id # Rows[j].id

\* C18: the external id of every entry is the decimal id of a row of the
\* statement, alone or followed by "T" or "TDEPOSIT"; when the rows have
\* pairwise distinct ids the entries have pairwise distinct external ids, and
\* rows with the same id give the same external ids.
C18_ExternalIdsDistinct ==
    JustNormalized =>
        /\ \A n \in 1..Len(Flattened) :
              \E i \in 1..Len(Rows), suffix \in {"", "T", "TDEPOSIT"} :
                  Flattened[n].external_id = Some(Decimal(Rows[i].id) \o suffix)
        /\ DistinctIds =>
              \A n, m \in 1..Len(Flattened) :
                  n # m => Flattened[n].external_id # Flattened[m].external_id
        /\ \A i, j \in 1..Len(Rows) :
              (Rows[i].id = Rows[j].id /\ Len(RowIds(Rows[i])) = Len(RowIds(Rows[j]))) =>
                  \A m \in 1..Len(RowIds(Rows[i])) :
                      Flattened[EntriesBefore(i) + m].external_id
                          = Flattened[EntriesBefore(j) + m].external_id

\* Rows 1 and 11 both have all three entries, none of which collide.
C18_Witness ==
    /\ JustNormalized
    /\ DistinctIds
    /\ Len(Rows) >= 11
    /\ Len(Flattened) = 3 * Len(Rows)
    /\ Flattened[2].external_id = Some("1T")
    /\ Flattened[31].external_id = Some("11")

====
